---- MODULE Spec2Model ----
(***************************************************************************)
(* A model of the tt crate: Tree<T> (src/src/tree.rs), an ordered tree of  *)
(* labelled nodes, and Focus<T> (src/src/focus.rs), a cursor made of an    *)
(* owned tree and a path of child indices.                                 *)
(*                                                                         *)
(* A Tree is the record [label, children], children a sequence of Trees.   *)
(* Rust indices are 0-based, TLA+ sequences 1-based: child i of the code   *)
(* is children[i + 1] here.  Option<X> is a sequence of length 0 (None) or *)
(* 1 (Some).                                                               *)
(***************************************************************************)
EXTENDS Integers, Sequences, FiniteSets, TLC

\* ---------------------------------------------------------------- bounds
\* create_subtree is driven only while the tree has fewer nodes than this.
MaxNodes == 4
\* Lateral offsets driven: -MaxOffset..MaxOffset and the two i32 extremes.
MaxOffset == 2
\* Paths handed to Focus::from have at most this many elements ...
MaxArgPath == 2
\* ... each in 0..MaxArgIndex.
MaxArgIndex == 1

\* ------------------------------------------------------------- i32, usize
\* Jump::Lateral carries an i32.
I32Max == 2147483647
I32Min == (-I32Max) - 1

\* A usize is held as an integer: u itself up to I32Max, and the negative
\* integer n for the usize 2^64 + n (the values `n as usize` gives for a
\* negative i32 n).  Usizes in between do not occur.

\* `u as i32` for a usize u: the low 32 bits as two's complement, which
\* are u up to I32Max and n for 2^64 + n.
AsI32(u) == IF u <= I32Max THEN u ELSE I32Min

\* `n as usize` for an i32 n: n for n >= 0 and 2^64 + n, held as n, below.
AsUsize(n) == n

\* i < n for a usize i and a vector length n: 2^64 + n is above every length.
UsizeLess(i, n) == i >= 0 /\ i < n

\* Whether the i32 addition a + b overflows (computed without leaving i32).
AddOverflows(a, b) ==
    \/ a > 0 /\ b > 0 /\ a > I32Max - b
    \/ a < 0 /\ b < 0 /\ a < I32Min - b

\* a + b modulo 2^32 in two's complement: what the addition yields when
\* overflow checks are off (a + b - 2^32 = (a - 2^31) + (b - 2^31)).
WrappingAdd(a, b) ==
    IF a > 0 /\ b > 0 /\ a > I32Max - b THEN (a + I32Min) + (b + I32Min)
    ELSE IF a < 0 /\ b < 0 /\ a < I32Min - b THEN ((a + I32Max) + 1) + ((b + I32Max) + 1)
    ELSE a + b

\* ------------------------------------------------------------------ Option
None == << >>
Some(x) == << x >>
IsSome(o) == Len(o) = 1
Unwrap(o) == o[1]

\* -------------------------------------------------------------------- Tree
\* Tree::new
Tree_new(label) == [label |-> label, children |-> << >>]

\* Tree::children
children(t) == Len(t.children)

\* Mutant: the index is taken as 1-based.
child_at_OneBased(t, i) ==
    IF i >= 1 /\ i <= Len(t.children) THEN Some(t.children[i]) ELSE None

\* Tree::child_at / Tree::child_at_mut: Vec::get, None when out of range.
child_at(t, i) == IF UsizeLess(i, Len(t.children)) THEN Some(t.children[i + 1]) ELSE None

\* Mutant: the new leaf is inserted in front of the children.
Tree_create_subtree_Front(t, label) ==
    [t EXCEPT !.children = << Tree_new(label) >> \o @]

\* Mutant: the new leaf replaces the children instead of joining them.
Tree_create_subtree_Replacing(t, label) ==
    [t EXCEPT !.children = << Tree_new(label) >>]

\* Tree::create_subtree: push a new leaf.
Tree_create_subtree(t, label) ==
    [t EXCEPT !.children = Append(@, Tree_new(label))]

\* ------------------------------------------------------------------- Focus
\* Focus::at_path: walk child_at from the root, None at the first miss.
RECURSIVE at_path(_, _)
at_path(t, p) ==
    IF p = << >> THEN Some(t)
    ELSE LET c == child_at(t, Head(p))
         IN IF IsSome(c) THEN at_path(Unwrap(c), Tail(p)) ELSE None

\* Whether Focus::focused (and focused_mut, which walks the same indices
\* with child_at_mut) panics on unwrap.
FocusedPanics(t, p) == ~IsSome(at_path(t, p))

\* Focus::focused
focused(t, p) == Unwrap(at_path(t, p))

\* Vec::pop on the path: the path without its last element (empty stays empty).
Pop(p) == IF p = << >> THEN p ELSE SubSeq(p, 1, Len(p) - 1)

\* Vec::push on the path.
Push(p, i) == Append(p, i)

\* Mutant: the path is not validated.
Focus_from_Unvalidated(t, popt) ==
    Some([tree |-> t, path |-> IF IsSome(popt) THEN Unwrap(popt) ELSE << >>])

\* Focus::from: the path defaults to the empty one; the focus is returned
\* only if at_path finds a node for it.
Focus_from(t, popt) ==
    LET f == [tree |-> t, path |-> IF IsSome(popt) THEN Unwrap(popt) ELSE << >>]
    IN IF IsSome(at_path(f.tree, f.path)) THEN Some(f) ELSE None

\* Mutant: new asks for the first child of the fresh tree.
Focus_new_FirstChild(label) == Focus_from(Tree_new(label), Some(<< 0 >>))

\* Focus::new: from(Tree::new(label), None), which the caller unwraps.
Focus_new(label) == Focus_from(Tree_new(label), None)

\* focused_mut().create_subtree(label): the tree with a new leaf pushed
\* onto the node the path reaches (child_at_mut along the path).
RECURSIVE focused_mut_create_subtree(_, _, _)
focused_mut_create_subtree(t, p, label) ==
    IF p = << >> THEN Tree_create_subtree(t, label)
    ELSE [t EXCEPT !.children[Head(p) + 1] =
              focused_mut_create_subtree(@, Tail(p), label)]

\* Mutant: the child count is pushed, not the child count minus one.
Focus_create_subtree_CountPushed(f, label) ==
    LET t2 == focused_mut_create_subtree(f.tree, f.path, label)
    IN [tree |-> t2, path |-> Push(f.path, children(focused(t2, f.path)))]

\* Mutant: the leaf is pushed a second time before the path is extended.
Focus_create_subtree_TwoLeaves(f, label) ==
    LET t2 == focused_mut_create_subtree(
                  focused_mut_create_subtree(f.tree, f.path, label), f.path, label)
    IN [tree |-> t2,
        path |-> Push(f.path, children(focused(t2, f.path)) - 1)]

\* Focus::create_subtree: push the leaf, then push onto the path the
\* focused node's child count minus one.
Focus_create_subtree(f, label) ==
    LET t2 == focused_mut_create_subtree(f.tree, f.path, label)
    IN [tree |-> t2,
        path |-> Push(f.path, children(focused(t2, f.path)) - 1)]

\* Mutant: Up clears the path (jumps to the root).
jump_Up_ToRoot(f) == [f EXCEPT !.path = << >>]

\* Mutant: Up pops two elements.
jump_Up_PopsTwo(f) == [f EXCEPT !.path = Pop(Pop(@))]

\* Jump::Up arm: self.path.pop()
jump_Up(f) == [f EXCEPT !.path = Pop(@)]

\* Mutant: the guard on the child count is missing.
jump_Down_Unguarded(f) == [f EXCEPT !.path = Push(@, 0)]

\* Mutant: Down on a leaf creates the child it moves to.
jump_Down_Creating(f) ==
    IF children(focused(f.tree, f.path)) > 0
    THEN [f EXCEPT !.path = Push(@, 0)]
    ELSE [tree |-> focused_mut_create_subtree(f.tree, f.path, f.tree.label),
          path |-> Push(f.path, 0)]

\* Mutant: Down moves to the last child.
jump_Down_LastChild(f) ==
    IF children(focused(f.tree, f.path)) > 0
    THEN [f EXCEPT !.path = Push(@, children(focused(f.tree, f.path)) - 1)]
    ELSE f

\* Jump::Down arm: push 0 when the guard focused().children() > 0 holds,
\* otherwise the arm `_ => {}`.
jump_Down(f) ==
    IF children(focused(f.tree, f.path)) > 0
    THEN [f EXCEPT !.path = Push(@, 0)]
    ELSE f

\* Mutant: a sum at or above ub is clamped to ub, not to ub - 1.
LateralIndex_ClampToUb(s, ub) ==
    IF s < 0 THEN 0
    ELSE IF s >= ub THEN ub
    ELSE s

\* The index n the Lateral arm computes from o, x and ub, given the value
\* s the i32 expression o + x evaluates to.
LateralIndex(s, ub) ==
    IF s < 0 THEN 0
    ELSE IF s >= ub THEN ub - 1
    ELSE s

\* Jump::Lateral arm, for a non-empty path, when o + x yields a value
\* (no overflow, or overflow checks off): pop, clamp, push.
jump_Lateral(f, x) ==
    LET o  == AsI32(f.path[Len(f.path)])
        p1 == Pop(f.path)
        ub == AsI32(children(focused(f.tree, p1)))
        n  == LateralIndex(WrappingAdd(o, x), ub)
    IN [f EXCEPT !.path = Push(p1, AsUsize(n))]

\* Mutant: the focused node's label is not pushed.
labels_WithoutFocused(f) ==
    [i \in 1..Len(f.path) |->
        Unwrap(at_path(f.tree, SubSeq(f.path, 1, i - 1))).label]

\* Focus::labels: for each element of the path, the label of the node the
\* elements before it reach; then the focused node's label.
labels(f) ==
    [i \in 1..Len(f.path) |->
        Unwrap(at_path(f.tree, SubSeq(f.path, 1, i - 1))).label]
    \o << focused(f.tree, f.path).label >>

\* ------------------------------------------------------------ the driver
\* T is instantiated with the integer labels of the doc test.
Labels == {0, 1, 2, 3}

\* Offsets handed to Jump::Lateral.
Offsets == ((-MaxOffset)..MaxOffset) \cup {I32Min, I32Max}

RECURSIVE NodeCount(_)
RECURSIVE SumNodes(_)
SumNodes(cs) == IF cs = << >> THEN 0 ELSE NodeCount(Head(cs)) + SumNodes(Tail(cs))
NodeCount(t) == 1 + SumNodes(t.children)

\* Trees handed to Focus::from: every single node, the tree of the doc
\* tests (root 0 with the leaf 1), a root with two leaves, and a chain.
Tree0 == Tree_new(0)
Tree01 == Tree_create_subtree(Tree0, 1)
Tree012 == Tree_create_subtree(Tree01, 2)
TreeChain == focused_mut_create_subtree(Tree01, << 0 >>, 2)
ArgTrees == {Tree_new(l) : l \in Labels} \cup {Tree0, Tree01, Tree012, TreeChain}

\* Paths handed to Focus::from: None, or Some of a short sequence.
RECURSIVE SeqsUpTo(_, _)
SeqsUpTo(S, n) ==
    IF n = 0 THEN {<< >>}
    ELSE LET shorter == SeqsUpTo(S, n - 1)
         IN shorter \cup {Append(q, i) : q \in shorter, i \in S}
ArgPaths == {None} \cup {Some(p) : p \in SeqsUpTo(0..MaxArgIndex, MaxArgPath)}

VARIABLES
    focus,  \* Option<Focus>: None before construction and when from fails
    pc,     \* "init", "live", "absent" (from returned None), or a panic
    call,   \* the last call made
    pre,    \* focus as it was before the last call
    ret,    \* Option of the last call's return value
    creates \* the number of create_subtree calls made on the focus

vars == << focus, pc, call, pre, ret, creates >>

Call(op, label, x, t, p) == [op |-> op, label |-> label, x |-> x, tree |-> t, path |-> p]

Init ==
    /\ focus = None
    /\ pc = "init"
    /\ call = Call("none", 0, 0, None, None)
    /\ pre = None
    /\ ret = None
    /\ creates = 0

\* let focus = Focus::new(label)
CallNew(label) ==
    /\ pc = "init"
    /\ focus' = Focus_new(label)
    /\ pc' = IF IsSome(Focus_new(label)) THEN "live" ELSE "panic_unwrap"
    /\ call' = Call("new", label, 0, None, None)
    /\ pre' = focus
    /\ creates' = 0
    /\ ret' = None

\* let focus = Focus::from(tree, path)
CallFrom(t, popt) ==
    /\ pc = "init"
    /\ focus' = Focus_from(t, popt)
    /\ pc' = IF IsSome(Focus_from(t, popt)) THEN "live" ELSE "absent"
    /\ call' = Call("from", 0, 0, Some(t), popt)
    /\ pre' = focus
    /\ creates' = 0
    /\ ret' = None

\* focus.jump(Jump::Up)
JumpUp ==
    /\ pc = "live"
    /\ focus' = Some(jump_Up(Unwrap(focus)))
    /\ pc' = "live"
    /\ call' = Call("Up", 0, 0, None, None)
    /\ pre' = focus
    /\ creates' = creates
    /\ ret' = None

\* focus.jump(Jump::Down): the guard calls focused(), which unwraps.
JumpDown ==
    /\ pc = "live"
    /\ LET f == Unwrap(focus)
       IN IF FocusedPanics(f.tree, f.path)
          THEN focus' = focus /\ pc' = "panic_unwrap"
          ELSE focus' = Some(jump_Down(f)) /\ pc' = "live"
    /\ call' = Call("Down", 0, 0, None, None)
    /\ pre' = focus
    /\ creates' = creates
    /\ ret' = None

\* focus.jump(Jump::Lateral(x)).  With an empty path the arm `_ => {}` runs.
\* Otherwise the last index is popped, focused() unwraps for the parent, and
\* o + x is evaluated: when it overflows i32 the build decides between a
\* panic (overflow checks on: the path stays popped) and the wrapped value.
JumpLateral(x) ==
    /\ pc = "live"
    /\ LET f == Unwrap(focus)
       IN IF Len(f.path) = 0
          THEN focus' = focus /\ pc' = "live"
          ELSE IF FocusedPanics(f.tree, Pop(f.path))
          THEN focus' = Some(jump_Up(f)) /\ pc' = "panic_unwrap"
          ELSE IF AddOverflows(AsI32(f.path[Len(f.path)]), x)
          THEN \/ focus' = Some(jump_Up(f)) /\ pc' = "panic_overflow"
               \/ focus' = Some(jump_Lateral(f, x)) /\ pc' = "live"
          ELSE focus' = Some(jump_Lateral(f, x)) /\ pc' = "live"
    /\ call' = Call("Lateral", 0, x, None, None)
    /\ pre' = focus
    /\ creates' = creates
    /\ ret' = None

\* focus.create_subtree(label): focused_mut() unwraps before anything changes.
CreateSubtree(label) ==
    /\ pc = "live"
    /\ LET f == Unwrap(focus)
       IN /\ NodeCount(f.tree) < MaxNodes
          /\ IF FocusedPanics(f.tree, f.path)
             THEN focus' = focus /\ pc' = "panic_unwrap"
             ELSE focus' = Some(Focus_create_subtree(f, label)) /\ pc' = "live"
    /\ call' = Call("create_subtree", label, 0, None, None)
    /\ pre' = focus
    /\ creates' = creates + 1
    /\ ret' = None

\* focus.labels(): at_path(..).unwrap() and focused() unwrap.
CallLabels ==
    /\ pc = "live"
    /\ LET f == Unwrap(focus)
       IN IF FocusedPanics(f.tree, f.path)
          THEN ret' = None /\ pc' = "panic_unwrap"
          ELSE ret' = Some(labels(f)) /\ pc' = "live"
    /\ focus' = focus
    /\ call' = Call("labels", 0, 0, None, None)
    /\ pre' = focus
    /\ creates' = creates

Next ==
    \/ \E l \in Labels : CallNew(l)
    \/ \E t \in ArgTrees, p \in ArgPaths : CallFrom(t, p)
    \/ JumpUp
    \/ JumpDown
    \/ \E x \in Offsets : JumpLateral(x)
    \/ \E l \in Labels : CreateSubtree(l)
    \/ CallLabels

Spec == Init /\ [][Next]_vars

\* The calls on a focus made by Focus::new.
NextNew ==
    \/ \E l \in Labels : CallNew(l)
    \/ JumpUp
    \/ JumpDown
    \/ \E x \in Offsets : JumpLateral(x)
    \/ \E l \in Labels : CreateSubtree(l)
    \/ CallLabels

SpecNew == Init /\ [][NextNew]_vars

\* Lateral offsets to the neighbouring siblings.
Neighbours == {-1, 1}

\* Calls that lead from Focus::new to every tree and every node of it:
\* create_subtree, and jumps to the parent, the first child and the
\* neighbouring siblings.
NextReach ==
    \/ \E l \in Labels : CallNew(l)
    \/ JumpUp
    \/ JumpDown
    \/ \E x \in Neighbours : JumpLateral(x)
    \/ \E l \in Labels : CreateSubtree(l)

\* ------------------------------------------------ child lookups, driven
\* Indices handed to child_at.
ChildIndices == 0..(MaxArgIndex + 1)

\* focus.focused().child_at(i) (child_at_mut addresses the same way)
CallChildAt(i) ==
    /\ pc = "live"
    /\ LET f == Unwrap(focus)
       IN IF FocusedPanics(f.tree, f.path)
          THEN ret' = None /\ pc' = "panic_unwrap"
          ELSE ret' = Some(child_at(focused(f.tree, f.path), i)) /\ pc' = "live"
    /\ focus' = focus
    /\ call' = Call("child_at", 0, i, None, None)
    /\ pre' = focus
    /\ creates' = creates

NextTree ==
    \/ NextReach
    \/ \E i \in ChildIndices : CallChildAt(i)

SpecTree == Init /\ [][NextTree]_vars

\* --------------------------------------------------------------- serde
\* #[derive(Serialize, Deserialize)] on Tree and Focus, over serde's data
\* model: an integer is itself, a Vec is [seq |-> its elements' values], a
\* struct is [name, fields], fields being the << name, value >> pairs in
\* declaration order.

\* The value of the one field called name, None if there is none or more
\* than one (the derived visitor's missing_field / duplicate_field errors).
Field(v, name) ==
    LET at == {i \in 1..Len(v.fields) : v.fields[i][1] = name}
    IN IF Cardinality(at) = 1
       THEN Some(v.fields[CHOOSE i \in at : TRUE][2])
       ELSE None

\* Mutant: the children are written last to first.
RECURSIVE Serialize_Tree_Reversed(_)
Serialize_Tree_Reversed(t) ==
    [name |-> "Tree",
     fields |-> << << "label", t.label >>,
                   << "children",
                      [seq |-> [i \in 1..Len(t.children) |->
                          Serialize_Tree_Reversed(t.children[Len(t.children) + 1 - i])]] >> >>]

\* Tree's derived Serialize: the fields label and children.
RECURSIVE Serialize_Tree(_)
Serialize_Tree(t) ==
    [name |-> "Tree",
     fields |-> << << "label", t.label >>,
                   << "children",
                      [seq |-> [i \in 1..Len(t.children) |->
                          Serialize_Tree(t.children[i])]] >> >>]

\* Tree's derived Deserialize: both fields are required, and every child
\* has to deserialize.
RECURSIVE Deserialize_Tree(_)
Deserialize_Tree(v) ==
    LET l == Field(v, "label")
        c == Field(v, "children")
    IN IF ~IsSome(l) \/ ~IsSome(c) THEN None
       ELSE LET cs == [i \in 1..Len(Unwrap(c).seq) |-> Deserialize_Tree(Unwrap(c).seq[i])]
            IN IF \E i \in 1..Len(cs) : ~IsSome(cs[i]) THEN None
               ELSE Some([label |-> Unwrap(l),
                          children |-> [i \in 1..Len(cs) |-> Unwrap(cs[i])]])

\* Focus's derived Serialize: the fields tree and path.
Serialize_Focus(f) ==
    [name |-> "Focus",
     fields |-> << << "tree", Serialize_Tree(f.tree) >>,
                   << "path", [seq |-> f.path] >> >>]

\* Focus's derived Deserialize: both fields are required; the path is read
\* as a Vec<usize> and is not walked.
Deserialize_Focus(v) ==
    LET t == Field(v, "tree")
        p == Field(v, "path")
    IN IF ~IsSome(t) \/ ~IsSome(p) THEN None
       ELSE LET tr == Deserialize_Tree(Unwrap(t))
            IN IF ~IsSome(tr) THEN None
               ELSE Some([tree |-> Unwrap(tr), path |-> Unwrap(p).seq])

\* Records handed to Focus's Deserialize: fields tree and path, the tree
\* one of ArgTrees, the path any short sequence of indices.
DeserializeInputs ==
    {[name |-> "Focus",
      fields |-> << << "tree", Serialize_Tree(t) >>, << "path", [seq |-> p] >> >>] :
        t \in ArgTrees, p \in SeqsUpTo(0..MaxArgIndex, MaxArgPath)}

\* let focus: Focus = deserialize(v)
CallDeserialize(v) ==
    /\ pc = "init"
    /\ focus' = Deserialize_Focus(v)
    /\ pc' = IF IsSome(Deserialize_Focus(v)) THEN "live" ELSE "absent"
    /\ call' = Call("deserialize", 0, 0, None, None)
    /\ pre' = focus
    /\ creates' = 0
    /\ ret' = Some(v)

\* deserialize(serialize(&focus)) and deserialize(serialize(&focus.tree)),
\* both returned.
CallRoundTrip ==
    /\ pc = "live"
    /\ ret' = Some([focus |-> Deserialize_Focus(Serialize_Focus(Unwrap(focus))),
                    tree |-> Deserialize_Tree(Serialize_Tree(Unwrap(focus).tree))])
    /\ focus' = focus
    /\ pc' = "live"
    /\ call' = Call("roundtrip", 0, 0, None, None)
    /\ pre' = focus
    /\ creates' = creates

NextSerde ==
    \/ NextReach
    \/ \E v \in DeserializeInputs : CallDeserialize(v)
    \/ CallRoundTrip

SpecSerde == Init /\ [][NextSerde]_vars

\* ------------------------------------------------- vocabulary of the claims
\* The focus now and before the last call, where they exist.
Now == Unwrap(focus)
Before == Unwrap(pre)

\* Every address of a tree: the empty path, and i followed by an address
\* of child i.
RECURSIVE Addresses(_)
Addresses(t) ==
    {<< >>} \cup
    UNION {{<< i - 1 >> \o q : q \in Addresses(t.children[i])} : i \in 1..Len(t.children)}

\* The node at an address of a tree.
RECURSIVE NodeAt(_, _)
NodeAt(t, q) == IF q = << >> THEN t ELSE NodeAt(t.children[Head(q) + 1], Tail(q))

\* p is q with one more element.
Extends(p, q) == Len(p) = Len(q) + 1 /\ \A i \in 1..Len(q) : p[i] = q[i]

\* max(0, min(k - 1, o + n)) on the integers, written so that no
\* intermediate value leaves the 32-bit range (o >= 0, k >= 1).
Clamp(o, n, k) ==
    IF n < -o THEN 0
    ELSE IF n > (k - 1) - o THEN k - 1
    ELSE o + n

JumpOps == {"Up", "Down", "Lateral"}

\* ------------------------------------------------------ runs of jumps
Up == [kind |-> "Up", x |-> 0]
Down == [kind |-> "Down", x |-> 0]
Lateral(x) == [kind |-> "Lateral", x |-> x]

\* The outcomes of focus.jump(j) on the focus f: the focus it leaves and
\* whether it returned ("live") or panicked.  The arms, their guards and
\* the overflow of o + x are those of JumpUp, JumpDown and JumpLateral.
JumpOutcomes(f, j) ==
    IF j.kind = "Up" THEN {[focus |-> jump_Up(f), pc |-> "live"]}
    ELSE IF j.kind = "Down"
    THEN IF FocusedPanics(f.tree, f.path)
         THEN {[focus |-> f, pc |-> "panic_unwrap"]}
         ELSE {[focus |-> jump_Down(f), pc |-> "live"]}
    ELSE IF Len(f.path) = 0 THEN {[focus |-> f, pc |-> "live"]}
    ELSE IF FocusedPanics(f.tree, Pop(f.path))
    THEN {[focus |-> jump_Up(f), pc |-> "panic_unwrap"]}
    ELSE IF AddOverflows(AsI32(f.path[Len(f.path)]), j.x)
    THEN {[focus |-> jump_Up(f), pc |-> "panic_overflow"],
          [focus |-> jump_Lateral(f, j.x), pc |-> "live"]}
    ELSE {[focus |-> jump_Lateral(f, j.x), pc |-> "live"]}

\* The outcomes of making the jumps js one after the other; a panic ends
\* the run.
RECURSIVE RunJumps(_, _)
RunJumps(f, js) ==
    IF js = << >> THEN {[focus |-> f, pc |-> "live"]}
    ELSE UNION {IF out.pc = "live" THEN RunJumps(out.focus, Tail(js)) ELSE {out} :
                    out \in JumpOutcomes(f, Head(js))}

\* The jumps that lead from the focus f to the node at p: Up once per
\* element of f's path, then Down and Lateral(i) for each index i of p.
RECURSIVE DownLaterals(_)
DownLaterals(p) ==
    IF p = << >> THEN << >>
    ELSE << Down, Lateral(AsI32(Head(p))) >> \o DownLaterals(Tail(p))
JumpsTo(f, p) == [i \in 1..Len(f.path) |-> Up] \o DownLaterals(p)

\* for j in JumpsTo(&focus, p) { focus.jump(j) }, p a node of the tree
Navigate(p) ==
    /\ pc = "live"
    /\ \E out \in RunJumps(Unwrap(focus), JumpsTo(Unwrap(focus), p)) :
          /\ focus' = Some(out.focus)
          /\ pc' = out.pc
    /\ call' = Call("navigate", 0, 0, None, Some(p))
    /\ pre' = focus
    /\ creates' = creates
    /\ ret' = None

\* The nodes to navigate to: those of the focus's tree, once there is one.
NavTargets == IF IsSome(focus) THEN Addresses(Unwrap(focus).tree) ELSE {}

NextNav ==
    \/ NextReach
    \/ \E p \in NavTargets : Navigate(p)

SpecNav == Init /\ [][NextNav]_vars

\* ---------------------------------------------------------------------- C1
\* C1: after construction by new or a successful from, and after every
\* sequence of jump and create_subtree calls, every index of the path is in
\* range at the node the indices before it lead to (the path is an address
\* of the tree), and no call has panicked on unwrapping a missing child.
C1_PathIsAddress ==
    /\ pc # "panic_unwrap"
    /\ IsSome(focus) =>
          \A i \in 1..Len(Now.path) :
              /\ SubSeq(Now.path, 1, i - 1) \in Addresses(Now.tree)
              /\ Now.path[i] < Len(NodeAt(Now.tree, SubSeq(Now.path, 1, i - 1)).children)

\* A lateral jump past the last sibling, two levels down, has acted.
C1_Witness ==
    /\ pc = "live"
    /\ call.op = "Lateral"
    /\ Len(Before.path) = 2
    /\ call.x > 0
    /\ Now.path # Before.path
    /\ Now.path[2] = Len(NodeAt(Now.tree, << Now.path[1] >>).children) - 1

\* ---------------------------------------------------------------------- C2
\* C2: Focus::from(tree, path) returns None exactly when the path (empty if
\* none is given) is not an address of the tree; otherwise the focus holds
\* the given tree and the given path.  For the root 0 with the single leaf
\* 1, path [0, 1] gives None and path [0] focuses the label 1.
C2_FromValidates ==
    call.op = "from" =>
        LET t == Unwrap(call.tree)
            p == IF call.path = None THEN << >> ELSE Unwrap(call.path)
        IN /\ (focus = None) <=> (p \notin Addresses(t))
           /\ (pc = "absent") <=> (focus = None)
           /\ focus # None => Now.tree = t /\ Now.path = p
           /\ (t = [label |-> 0, children |-> << [label |-> 1, children |-> << >>] >>]
                 /\ p = << 0, 1 >>) => focus = None
           /\ (t = [label |-> 0, children |-> << [label |-> 1, children |-> << >>] >>]
                 /\ p = << 0 >>) => focus # None /\ NodeAt(Now.tree, Now.path).label = 1

\* from has refused the path [0, 1] on the doc test's tree.
C2_Witness ==
    /\ call.op = "from"
    /\ call.tree = Some([label |-> 0, children |-> << [label |-> 1, children |-> << >>] >>])
    /\ call.path = Some(<< 0, 1 >>)
    /\ pc = "absent"

\* ---------------------------------------------------------------------- C3
\* C3: jump(Lateral(n)) on a non-empty path with last index o, whose parent
\* has k children, yields the same path with the last element replaced by
\* max(0, min(k - 1, o + n)); on the empty path it leaves the path as it is.
C3_LateralClamps ==
    call.op = "Lateral" =>
        IF Before.path = << >>
        THEN Now.path = Before.path
        ELSE LET parent == SubSeq(Before.path, 1, Len(Before.path) - 1)
                 o == Before.path[Len(Before.path)]
                 k == Len(NodeAt(Before.tree, parent).children)
             IN Now.path = parent \o << Clamp(o, call.x, k) >>

\* ---------------------------------------------------------------------- C4
\* C4: jump(Lateral(n)) never fails, for every 32-bit n and every sibling
\* index o, and the index it leaves is the clamp of the integer o + n: the
\* 32-bit addition neither traps nor wraps to another result.
C4_LateralTotal ==
    call.op = "Lateral" =>
        /\ pc = "live"
        /\ Before.path # << >> =>
              LET o == Before.path[Len(Before.path)]
                  k == Len(NodeAt(Before.tree, Pop(Before.path)).children)
              IN /\ Len(Now.path) = Len(Before.path)
                 /\ Now.path[Len(Now.path)] = Clamp(o, call.x, k)

\* ---------------------------------------------------------------------- C5
\* C5: create_subtree(label) makes the path the old path plus the index of
\* the last child of the node focused before; that child is new, carries
\* label and has no children; the tree's addresses are the old ones plus
\* this one, and every old address keeps its label.
C5_CreateSubtree ==
    call.op = "create_subtree" =>
        /\ pc = "live"
        /\ Extends(Now.path, Before.path)
        /\ Now.path[Len(Now.path)] = Len(NodeAt(Before.tree, Before.path).children)
        /\ Now.path[Len(Now.path)] = Len(NodeAt(Now.tree, Before.path).children) - 1
        /\ NodeAt(Now.tree, Now.path) = [label |-> call.label, children |-> << >>]
        /\ Addresses(Now.tree) = Addresses(Before.tree) \cup {Now.path}
        /\ Now.path \notin Addresses(Before.tree)
        /\ \A q \in Addresses(Before.tree) :
              NodeAt(Now.tree, q).label = NodeAt(Before.tree, q).label

\* create_subtree has added a second child below the root's first child,
\* with a label that differs from its sibling's.
C5_Witness ==
    /\ call.op = "create_subtree"
    /\ pc = "live"
    /\ Now.path = << 0, 1 >>
    /\ NodeAt(Now.tree, << 0, 0 >>).label # call.label

\* ---------------------------------------------------------------------- C6
\* C6: jump(Up) on a non-empty path leaves the path one element shorter,
\* the remaining elements as they were, so that the node focused before is
\* a child of the node focused now; on the empty path it changes nothing.
C6_Up ==
    call.op = "Up" =>
        /\ pc = "live"
        /\ IF Before.path = << >>
           THEN Now.path = Before.path
           ELSE /\ Extends(Before.path, Now.path)
                /\ NodeAt(Before.tree, Before.path) =
                      NodeAt(Now.tree, Now.path).children[Before.path[Len(Before.path)] + 1]

\* Up has acted two levels down.
C6_Witness ==
    /\ call.op = "Up"
    /\ Len(Before.path) = 2
    /\ Len(Now.path) = 1

\* ---------------------------------------------------------------------- C7
\* C7: jump(Down) on a node with at least one child makes the path the old
\* path followed by 0, so that the node's first child is focused; on a node
\* with no children it leaves the path as it is.
C7_Down ==
    call.op = "Down" =>
        /\ pc = "live"
        /\ IF Len(NodeAt(Before.tree, Before.path).children) >= 1
           THEN /\ Extends(Now.path, Before.path)
                /\ Now.path[Len(Now.path)] = 0
                /\ NodeAt(Now.tree, Now.path) = NodeAt(Before.tree, Before.path).children[1]
           ELSE Now.path = Before.path

\* Down has acted on a leaf below the root.
C7_Witness ==
    /\ call.op = "Down"
    /\ Len(Before.path) >= 1
    /\ Len(NodeAt(Before.tree, Before.path).children) = 0

\* ---------------------------------------------------------------------- C8
\* C8: every jump, a panicking one included, leaves the tree as it was, and
\* so does labels(); a create_subtree leaves a tree with exactly one node
\* more, a leaf.
C8_JumpKeepsTree ==
    /\ call.op \in JumpOps => Now.tree = Before.tree
    /\ call.op = "labels" => Now.tree = Before.tree
    /\ call.op = "create_subtree" =>
          /\ NodeCount(Now.tree) = NodeCount(Before.tree) + 1
          /\ \E q \in Addresses(Now.tree) :
                /\ Addresses(Now.tree) \ {q} = Addresses(Before.tree)
                /\ NodeAt(Now.tree, q).children = << >>

\* A jump has changed the path of a tree of MaxNodes nodes.
C8_Witness ==
    /\ call.op \in JumpOps
    /\ Now.path # Before.path
    /\ NodeCount(Now.tree) = MaxNodes

\* ---------------------------------------------------------------------- C9
\* The labels met walking the path from the root, the root's first.
RECURSIVE LabelsAlong(_, _)
LabelsAlong(t, p) ==
    IF p = << >> THEN << t.label >>
    ELSE << t.label >> \o LabelsAlong(t.children[Head(p) + 1], Tail(p))

\* C9: labels() returns path().len() + 1 labels, the i-th (from 0) being
\* the label of the node the first i path elements address: the root's
\* first, the focused node's last; it changes neither tree nor path.
C9_Labels ==
    call.op = "labels" =>
        /\ pc = "live"
        /\ focus = pre
        /\ IsSome(ret)
        /\ Len(Unwrap(ret)) = Len(Now.path) + 1
        /\ \A i \in 0..Len(Now.path) :
              Unwrap(ret)[i + 1] = NodeAt(Now.tree, SubSeq(Now.path, 1, i)).label
        /\ Unwrap(ret) = LabelsAlong(Now.tree, Now.path)

\* labels() has returned three different labels.
C9_Witness ==
    /\ call.op = "labels"
    /\ IsSome(ret)
    /\ Len(Unwrap(ret)) = 3
    /\ Cardinality({Unwrap(ret)[i] : i \in 1..3}) = 3

\* --------------------------------------------------------------------- C10
\* The states of the documented scenario, written out.
Leaf(l) == [label |-> l, children |-> << >>]
Doc0 == [tree |-> Leaf(0), path |-> << >>]
Doc1 == [tree |-> [label |-> 0, children |-> << Leaf(1) >>], path |-> << 0 >>]
Doc2 == [tree |-> [label |-> 0, children |-> << Leaf(1) >>], path |-> << >>]
Doc3 == [tree |-> [label |-> 0, children |-> << Leaf(1), Leaf(2) >>], path |-> << 1 >>]
Doc4 == [tree |-> [label |-> 0, children |-> << Leaf(1), Leaf(2) >>], path |-> << 0 >>]
Doc5 == [tree |-> [label |-> 0,
                   children |-> << [label |-> 1, children |-> << Leaf(3) >>], Leaf(2) >>],
         path |-> << 0, 0 >>]

\* C10: the documented scenario, step by step.  new(0) focuses label 0 with
\* the empty path; then create_subtree(1) focuses label 1 at path [0]; Up
\* focuses label 0 at the empty path; create_subtree(2) focuses label 2;
\* Lateral(-1) focuses label 1; create_subtree(3) gives a focus whose
\* labels() are [0, 1, 3].
C10_Scenario ==
    /\ (call.op = "new" /\ call.label = 0) =>
          focus = Some(Doc0) /\ NodeAt(Now.tree, Now.path).label = 0
    /\ (pre = Some(Doc0) /\ call.op = "create_subtree" /\ call.label = 1) =>
          focus = Some(Doc1) /\ NodeAt(Now.tree, Now.path).label = 1
    /\ (pre = Some(Doc1) /\ call.op = "Up") =>
          focus = Some(Doc2) /\ NodeAt(Now.tree, Now.path).label = 0
    /\ (pre = Some(Doc2) /\ call.op = "create_subtree" /\ call.label = 2) =>
          focus = Some(Doc3) /\ NodeAt(Now.tree, Now.path).label = 2
    /\ (pre = Some(Doc3) /\ call.op = "Lateral" /\ call.x = -1) =>
          focus = Some(Doc4) /\ NodeAt(Now.tree, Now.path).label = 1
    /\ (pre = Some(Doc4) /\ call.op = "create_subtree" /\ call.label = 3) =>
          focus = Some(Doc5)
    /\ (pre = Some(Doc5) /\ call.op = "labels") =>
          ret = Some(<< 0, 1, 3 >>)

\* The scenario's last step: labels() has been called on its final state.
C10_Witness ==
    /\ pre = Some(Doc5)
    /\ call.op = "labels"
    /\ ret = Some(<< 0, 1, 3 >>)

\* --------------------------------------------------------------------- C11
\* C11: Tree::create_subtree(label), on the node it is called on, raises
\* the child count by exactly 1; the new child is the last one, carries
\* label and has no children; every child there was keeps its index and its
\* whole subtree, and the node keeps its label.
C11_TreeCreateSubtree ==
    (call.op = "create_subtree" /\ pc = "live") =>
        LET old == NodeAt(Before.tree, Before.path)
            new == NodeAt(Now.tree, Before.path)
        IN /\ Len(new.children) = Len(old.children) + 1
           /\ new.children[Len(new.children)] = [label |-> call.label, children |-> << >>]
           /\ \A i \in 1..Len(old.children) : new.children[i] = old.children[i]
           /\ new.label = old.label

\* create_subtree has acted on a node whose first child has a child.
C11_Witness ==
    /\ call.op = "create_subtree"
    /\ pc = "live"
    /\ Len(NodeAt(Before.tree, Before.path).children) >= 1
    /\ Len(NodeAt(Before.tree, Before.path).children[1].children) >= 1

\* --------------------------------------------------------------------- C12
\* C12: child_at(i) (and child_at_mut(i)) on a node returns a node exactly
\* when i is below the node's child count, and then the i-th child in
\* insertion order; otherwise it returns None; in both cases nothing
\* changes and nothing panics.
C12_ChildAt ==
    call.op = "child_at" =>
        LET node == NodeAt(Now.tree, Now.path)
            r == Unwrap(ret)
        IN /\ pc = "live"
           /\ focus = pre
           /\ (r # None) <=> (call.x < Len(node.children))
           /\ r # None => r = << node.children[call.x + 1] >>

\* child_at has returned the second child of a node, and the two children
\* differ.
C12_Witness ==
    /\ call.op = "child_at"
    /\ call.x = 1
    /\ Unwrap(ret) # None
    /\ NodeAt(Now.tree, Now.path).children[1] # NodeAt(Now.tree, Now.path).children[2]

\* child_at has returned None for an index at the child count.
C12_WitnessAbsent ==
    /\ call.op = "child_at"
    /\ call.x = Len(NodeAt(Now.tree, Now.path).children)
    /\ Unwrap(ret) = None

\* --------------------------------------------------------------------- C13
\* C13: serializing a Focus, or its Tree, and deserializing the result
\* succeeds and gives back the same labels, the same children in the same
\* order at every node and, for the Focus, the same path.
C13_RoundTrip ==
    call.op = "roundtrip" =>
        /\ Unwrap(ret).focus = Some(Now)
        /\ Unwrap(ret).tree = Some(Now.tree)
        /\ focus = pre

\* A focus two levels down in a tree whose root has two different children
\* has gone through the round trip.
C13_Witness ==
    /\ call.op = "roundtrip"
    /\ Len(Now.path) = 2
    /\ Len(Now.tree.children) = 2
    /\ Now.tree.children[1] # Now.tree.children[2]
    /\ IsSome(Unwrap(ret).focus)

\* --------------------------------------------------------------------- C14
\* C14: Focus::new(label) succeeds and gives a tree of one node carrying
\* label, without children, and the empty path; Focus::from on such a
\* one-node tree with no path gives the same.
C14_NewIsFromLeaf ==
    /\ call.op = "new" =>
          /\ pc = "live"
          /\ focus = Some([tree |-> [label |-> call.label, children |-> << >>],
                           path |-> << >>])
    /\ (call.op = "from" /\ call.path = None /\ Unwrap(call.tree).children = << >>) =>
          /\ pc = "live"
          /\ focus = Some([tree |-> [label |-> Unwrap(call.tree).label, children |-> << >>],
                           path |-> << >>])

\* new(3) has returned.
C14_Witness ==
    /\ call.op = "new"
    /\ call.label = 3
    /\ pc = "live"

\* from(Tree::new(3), None) has returned.
C14_WitnessFrom ==
    /\ call.op = "from"
    /\ call.path = None
    /\ call.tree = Some([label |-> 3, children |-> << >>])
    /\ pc = "live"

\* --------------------------------------------------------------------- C15
\* C15: the tree only grows.  After every call, every address the tree had
\* before the call (pre is the focus the call started from) is still an
\* address and carries the same label; so, call after call, a node once
\* there stays at its path with its label, and its children stay at their
\* indices.
C15_TreeOnlyGrows ==
    (IsSome(pre) /\ IsSome(focus)) =>
        \A q \in Addresses(Before.tree) :
            /\ q \in Addresses(Now.tree)
            /\ NodeAt(Now.tree, q).label = NodeAt(Before.tree, q).label

\* A third child has been added below the root.
C15_Witness ==
    /\ call.op = "create_subtree"
    /\ pc = "live"
    /\ Before.path = << >>
    /\ Len(Now.tree.children) = 3

\* --------------------------------------------------------------------- C16
\* C16: every Focus there is, one deserialized from a record with the
\* fields tree and path included, has a path that is an address of its
\* tree, and no call on it panics on a missing child.
C16_EveryFocusValid ==
    /\ IsSome(focus) => Now.path \in Addresses(Now.tree)
    /\ pc # "panic_unwrap"

\* --------------------------------------------------------------------- C17
\* C17: when jump(Up) follows create_subtree(label), the path is again the
\* path from before the create_subtree, and the node focused is the node
\* focused then, with its label and its children, plus the new leaf as its
\* last child.  (In the state after create_subtree, pre is the focus from
\* before it.)
C17_CreateThenUp ==
    [][(call.op = "create_subtree" /\ pc = "live" /\ call'.op = "Up") =>
          /\ pc' = "live"
          /\ Unwrap(focus').path = Before.path
          /\ NodeAt(Unwrap(focus').tree, Unwrap(focus').path) =
                [label |-> NodeAt(Before.tree, Before.path).label,
                 children |-> Append(NodeAt(Before.tree, Before.path).children,
                                     [label |-> call.label, children |-> << >>])]]_vars

\* Up has left a leaf that is the second child of a node below the root:
\* the state after create_subtree there, then Up.
C17_Witness ==
    /\ call.op = "Up"
    /\ Before.path = << 0, 1 >>
    /\ Now.path = << 0 >>
    /\ NodeAt(Before.tree, Before.path).children = << >>

\* --------------------------------------------------------------------- C18
\* C18: from every focus, for every node p of the tree, the jumps Up (once
\* per element of the current path) and then Down, Lateral(i) for each
\* index i of p, all return, leave the tree as it is and end with
\* path() = p.
C18_EveryNodeReachable ==
    call.op = "navigate" =>
        /\ pc = "live"
        /\ Now.path = Unwrap(call.path)
        /\ Now.tree = Before.tree

\* The jumps have led from one leaf two levels down to the root's last
\* child, which is not its first.
C18_Witness ==
    /\ call.op = "navigate"
    /\ Len(Before.path) = 2
    /\ Now.path = << 1 >>
    /\ pc = "live"

\* --------------------------------------------------------------------- C19
\* C19: on a focus made by Focus::new, after any calls, the tree has one
\* node more than create_subtree calls were made, and the path has at most
\* as many elements as create_subtree calls were made.
C19_NodesAndCreates ==
    IsSome(focus) =>
        /\ NodeCount(Now.tree) = 1 + creates
        /\ Cardinality(Addresses(Now.tree)) = 1 + creates
        /\ Len(Now.path) <= creates

\* Two create_subtree calls and then a jump have left the root focused.
C19_Witness ==
    /\ IsSome(focus)
    /\ creates = 2
    /\ call.op \in JumpOps
    /\ Now.path = << >>
    /\ Before.path # << >>

====
